---- MODULE Spec2Model ----
(***************************************************************************)
(* Model of the batch-processing queue of the biodata backend:             *)
(*   backend/services/queue_service.py  (TokenBucket, CircuitBreaker,      *)
(*                                       QueueService, BatchJob)           *)
(*   backend/routers/upload.py          (upload_bulk_async,                *)
(*                                       cancel_batch_job)                 *)
(* Time is a discrete monotonic clock; one tick is one second.             *)
(***************************************************************************)
EXTENDS Integers, Sequences, FiniteSets, TLC

(***************************************************************************)
(* Bounds of the model.                                                    *)
(***************************************************************************)
\* the clock of the queue runs from 1 to MaxTime
MaxTime == 3
\* the clock of the breaker driven alone runs from 1 to MaxBreakerTime
MaxBreakerTime == 5
\* the clock of the token bucket driven alone runs from 1 to MaxBucketTime
MaxBucketTime == 5
\* acquire(tokens) is called with tokens in 0..MaxAcquire
MaxAcquire == 3
\* the clock of the job table driven alone runs from 1 to MaxJobTime
MaxJobTime == 2
\* number of jobs created in the job table driven alone
MaxJobsAlone == 1
\* largest total of a job created in the job table driven alone
MaxJobTotal == 4
\* one _execute_with_retry call taken alone: ticks in a second, the largest
\* base_delay and max_delay in ticks, and max_retries
BackoffTicksPerSec == 4
MaxBackoffBase == 6
MaxBackoffCap == 16
MaxBackoffRetries == 3
\* in the check of process_file_atomic: the tasks of the process_batch, and
\* the files of the upload after it
MaxAtomicBatch == 1
MaxAtomicFiles == 2
\* largest total of a job created in the job table swept
MaxSweepTotal == 1
\* BatchJob.to_dict shows the last ErrorsShown errors (10 in the code)
ErrorsShown == 2
\* CircuitBreaker.failures grows without limit in the code; capped here
MaxFailures == 5
\* number of batch jobs that may be created
MaxJobs == 2
\* largest number of items in one batch
MaxItems == 3
\* largest number of items in all batches together
MaxTotalItems == 3
\* number of bulk uploads that may be made
MaxUploads == 1
\* files of one upload refused by validation: at most
MaxInvalid == 1
\* cleanup_old_jobs is called with max_age_hours in 0..MaxAge
MaxAge == 1
\* ticks per second: the jitter of a backoff delay is the sub-second part of
\* the clock, so it ranges over 0..TicksPerSec-1
TicksPerSec == 1

(***************************************************************************)
(* Configuration of the circuit breaker (constructor arguments), scaled.   *)
(***************************************************************************)
\* CircuitBreaker.failure_threshold
FailureThreshold == 2
\* CircuitBreaker.recovery_timeout, in ticks
RecoveryTimeout == 2
\* CircuitBreaker.half_open_max
HalfOpenMax == 2

(***************************************************************************)
(* Configuration of the queue service (constructor arguments), scaled.     *)
(***************************************************************************)
\* QueueService(concurrency), the width of the semaphore, is any of
\* 1..MaxConcurrency
MaxConcurrency == 2
\* TokenBucket.capacity (burst_capacity), in tokens
Capacity == 2
\* TokenBucket.rate: token units refilled per tick
Rate == 1
\* token units per token: the balance is a float in the code, here a
\* multiple of 1/TokenUnit
TokenUnit == 1
\* QueueService.max_retries
MaxRetries == 1
\* QueueService.base_delay, in ticks
BaseDelay == 1
\* QueueService.max_delay, in ticks
MaxDelay == 2
\* process_batch(chunk_size)
ChunkSize == 2

VARIABLES
    locks,           \* the asyncio.Lock objects: the task inside each, if any
    backoff,         \* one _execute_with_retry call taken alone: its delays
    now,             \* time.monotonic()
    circuit_breaker, \* QueueService.circuit_breaker
    cb_hist,         \* history of the calls made on the breaker
    rate_limiter,    \* QueueService.rate_limiter
    tb_hist,         \* history of the last acquire() made on the bucket alone
    status_resp,     \* the last response of GET /batch/{job_id}/status
    concurrency,     \* QueueService(concurrency): width of the semaphore
    semaphore,       \* QueueService.semaphore: number of free slots
    batch_jobs,      \* QueueService._batch_jobs: ids of the jobs in the table
    jobs,            \* the BatchJob objects, by id
    orch,            \* the process_batch coroutine of each job
    item             \* the process_item coroutine of each item

queue_vars == <<rate_limiter, semaphore, batch_jobs, jobs, orch, item>>
vars == <<locks, backoff, now, circuit_breaker, cb_hist, rate_limiter, tb_hist, status_resp,
          concurrency, semaphore, batch_jobs, jobs, orch, item>>

Min(a, b) == IF a <= b THEN a ELSE b

\* TokenBucket._lock, CircuitBreaker._lock and QueueService._jobs_lock, all
\* free; a lock holds the task that is inside its `async with` block.  No
\* block of the code has an await inside, so a task that enters one leaves it
\* in the same step.
NoTask == <<0, 0>>
NoLocks == [bucket |-> NoTask, breaker |-> NoTask, jobs |-> NoTask]

\* `async with lock` can be entered
LockFree(l) == locks[l] = NoTask

JobIds == 1..MaxJobs
ItemIds == JobIds \X (1..MaxItems)

\* last_failure_time: Optional[float] = None; None and 0.0 are both falsy in
\* the test of can_execute, and the clock starts at 1
None == 0

(***************************************************************************)
(* CircuitBreaker                                                          *)
(***************************************************************************)
CircuitBreakerInit ==
    [state |-> "closed", failures |-> 0, last_failure_time |-> None,
     half_open_successes |-> 0]

\* a variant that enters half-open with the successes of the probe before
can_execute_keep(cb, t) ==
    IF cb.state = "closed" THEN [ret |-> TRUE, cb |-> cb]
    ELSE IF cb.state = "open" THEN
        IF cb.last_failure_time # None
           /\ t - cb.last_failure_time >= RecoveryTimeout
        THEN [ret |-> TRUE, cb |-> [cb EXCEPT !.state = "half-open"]]
        ELSE [ret |-> FALSE, cb |-> cb]
    ELSE [ret |-> cb.half_open_successes < HalfOpenMax, cb |-> cb]

\* can_execute(): the value returned and the breaker after the call
can_execute(cb, t) ==
    IF cb.state = "closed" THEN [ret |-> TRUE, cb |-> cb]
    ELSE IF cb.state = "open" THEN
        IF cb.last_failure_time # None
           /\ t - cb.last_failure_time >= RecoveryTimeout
        THEN [ret |-> TRUE,
              cb |-> [cb EXCEPT !.state = "half-open",
                                !.half_open_successes = 0]]
        ELSE [ret |-> FALSE, cb |-> cb]
    ELSE [ret |-> cb.half_open_successes < HalfOpenMax, cb |-> cb]

\* a variant in which a success outside half-open leaves the count as it is
record_success_keep(cb) ==
    IF cb.state = "half-open" THEN
        IF cb.half_open_successes + 1 >= HalfOpenMax
        THEN [cb EXCEPT !.half_open_successes = @ + 1,
                        !.state = "closed", !.failures = 0]
        ELSE [cb EXCEPT !.half_open_successes = @ + 1]
    ELSE cb

\* a variant that closes one success late
record_success_late(cb) ==
    IF cb.state = "half-open" THEN
        IF cb.half_open_successes + 1 > HalfOpenMax
        THEN [cb EXCEPT !.half_open_successes = @ + 1,
                        !.state = "closed", !.failures = 0]
        ELSE [cb EXCEPT !.half_open_successes = @ + 1]
    ELSE [cb EXCEPT !.failures = 0]

record_success(cb) ==
    IF cb.state = "half-open" THEN
        IF cb.half_open_successes + 1 >= HalfOpenMax
        THEN [cb EXCEPT !.half_open_successes = @ + 1,
                        !.state = "closed", !.failures = 0]
        ELSE [cb EXCEPT !.half_open_successes = @ + 1]
    ELSE [cb EXCEPT !.failures = 0]

\* a variant that opens one failure late
record_failure_late(cb, t) ==
    LET c == [cb EXCEPT !.failures = @ + 1, !.last_failure_time = t]
    IN  IF cb.state = "half-open" THEN [c EXCEPT !.state = "open"]
        ELSE IF c.failures > FailureThreshold THEN [c EXCEPT !.state = "open"]
        ELSE c

record_failure(cb, t) ==
    LET c == [cb EXCEPT !.failures = @ + 1, !.last_failure_time = t]
    IN  IF cb.state = "half-open" THEN [c EXCEPT !.state = "open"]
        ELSE IF c.failures >= FailureThreshold THEN [c EXCEPT !.state = "open"]
        ELSE c

(***************************************************************************)
(* TokenBucket                                                             *)
(***************************************************************************)
TokenBucketInit == [tokens |-> Capacity * TokenUnit, last_update |-> 1]

CeilDiv(a, b) == (a + b - 1) \div b

\* a variant that refills without the cap of the capacity
acquire_uncapped(tb, n, t) ==
    LET elapsed == t - tb.last_update
        refilled == tb.tokens + elapsed * Rate
    IN  IF refilled >= n * TokenUnit
        THEN [wait |-> 0,
              tb |-> [tokens |-> refilled - n * TokenUnit, last_update |-> t]]
        ELSE [wait |-> CeilDiv(n * TokenUnit - refilled, Rate),
              tb |-> [tokens |-> refilled, last_update |-> t]]

\* a variant in which a refused call takes what is left of the balance
acquire_reserve(tb, n, t) ==
    LET elapsed == t - tb.last_update
        refilled == Min(Capacity * TokenUnit, tb.tokens + elapsed * Rate)
    IN  IF refilled >= n * TokenUnit
        THEN [wait |-> 0,
              tb |-> [tokens |-> refilled - n * TokenUnit, last_update |-> t]]
        ELSE [wait |-> CeilDiv(n * TokenUnit - refilled, Rate),
              tb |-> [tokens |-> 0, last_update |-> t]]

\* a variant that compares the request with the balance before the refill
acquire_stale(tb, n, t) ==
    LET elapsed == t - tb.last_update
        refilled == Min(Capacity * TokenUnit, tb.tokens + elapsed * Rate)
    IN  IF tb.tokens >= n * TokenUnit
        THEN [wait |-> 0,
              tb |-> [tokens |-> refilled - n * TokenUnit, last_update |-> t]]
        ELSE [wait |-> CeilDiv(n * TokenUnit - refilled, Rate),
              tb |-> [tokens |-> refilled, last_update |-> t]]

\* acquire(n) at time t: the wait returned (0: admitted; otherwise the ticks
\* to sleep, deficit / rate rounded up to the clock) and the bucket after it
acquire(tb, n, t) ==
    LET elapsed == t - tb.last_update
        refilled == Min(Capacity * TokenUnit, tb.tokens + elapsed * Rate)
    IN  IF refilled >= n * TokenUnit
        THEN [wait |-> 0,
              tb |-> [tokens |-> refilled - n * TokenUnit, last_update |-> t]]
        ELSE [wait |-> CeilDiv(n * TokenUnit - refilled, Rate),
              tb |-> [tokens |-> refilled, last_update |-> t]]

(***************************************************************************)
(* Errors.  An exception message is kept as the set of retryable patterns  *)
(* it contains and its length in characters.                               *)
(***************************************************************************)
retryable_patterns ==
    {"429", "503", "502", "resource_exhausted", "quota", "rate limit",
     "too many requests", "temporarily unavailable", "timeout"}

NoError == [pat |-> {}, len |-> 0]
\* "Circuit breaker is open - service temporarily unavailable"
CircuitOpenError == [pat |-> {"temporarily unavailable"}, len |-> 57]
\* what the tasks of the model raise
FatalError == [pat |-> {}, len |-> 13]
TransientError == [pat |-> {"429"}, len |-> 21]

\* a variant that takes every error for a retryable one
_is_retryable_error_any(e) == e.len > 0

_is_retryable_error(e) == e.pat \cap retryable_patterns # {}

\* error[:200]
ErrorLimit == 200
Truncate(e) == [e EXCEPT !.len = Min(@, ErrorLimit)]

\* a variant of the delay without the cap
backoff_delay_uncapped(base_delay, max_delay, attempt, jitter) ==
    base_delay * (2 ^ attempt) + jitter

\* min(base_delay * 2 ** attempt + jitter, max_delay), where jitter is
\* loop.time() % 1
backoff_delay(base_delay, max_delay, attempt, jitter) ==
    Min(base_delay * (2 ^ attempt) + jitter, max_delay)

\* delay = min(base_delay * 2 ** attempt + loop.time() % 1, max_delay)
retry_delay(attempt, t) ==
    backoff_delay(BaseDelay, MaxDelay, attempt, t % TicksPerSec)

\* asyncio.sleep(d) entered at time t ends at t + d or later; a sleep that
\* would end after the last tick of the model ends at the last tick
SleepUntil(t, d) == Min(t + d, MaxTime)

(***************************************************************************)
(* BatchJob and the job table                                              *)
(***************************************************************************)
Terminal == {"completed", "partial", "failed"}

\* a job id not yet used
NoJob ==
    [total |-> 0, processed |-> 0, successful |-> 0, failed |-> 0,
     status |-> "absent", created_at |-> None, completed_at |-> None,
     errors |-> <<>>, results |-> <<>>, completions |-> 0,
     cancelled |-> FALSE]

\* BatchJob(total=total, status=BatchStatus.PROCESSING); completions counts
\* the assignments made to completed_at and cancelled tells that
\* cancel_batch_job was called on the job
BatchJob(total, t) ==
    [NoJob EXCEPT !.total = total, !.status = "processing", !.created_at = t]

\* a variant in which any failure makes the finished job failed
update_batch_progress_strict(job, success, result, error, filename, t) ==
    LET j1 == [job EXCEPT
                 !.processed = @ + 1,
                 !.successful = IF success THEN @ + 1 ELSE @,
                 !.results = IF success /\ result # <<>>
                             THEN Append(@, result) ELSE @,
                 !.failed = IF success THEN @ ELSE @ + 1,
                 !.errors = IF ~success /\ error.len > 0
                            THEN Append(@, [filename |-> filename,
                                            error |-> Truncate(error)])
                            ELSE @]
    IN  IF j1.processed >= j1.total
        THEN [j1 EXCEPT
                !.completed_at = t,
                !.completions = @ + 1,
                !.status = IF j1.failed = 0 THEN "completed" ELSE "failed"]
        ELSE j1

\* update_batch_progress(job, success, result, error, filename) at time t
update_batch_progress(job, success, result, error, filename, t) ==
    LET j1 == [job EXCEPT
                 !.processed = @ + 1,
                 !.successful = IF success THEN @ + 1 ELSE @,
                 !.results = IF success /\ result # <<>>
                             THEN Append(@, result) ELSE @,
                 !.failed = IF success THEN @ ELSE @ + 1,
                 !.errors = IF ~success /\ error.len > 0
                            THEN Append(@, [filename |-> filename,
                                            error |-> Truncate(error)])
                            ELSE @]
    IN  IF j1.processed >= j1.total
        THEN [j1 EXCEPT
                !.completed_at = t,
                !.completions = @ + 1,
                !.status = IF j1.failed = 0 THEN "completed"
                           ELSE IF j1.successful = 0 THEN "failed"
                           ELSE "partial"]
        ELSE j1

\* round(x, 1) of x = 100 * a / b, in tenths: the nearest tenth, the even one
\* of the two when x is half way
RoundTenths(a, b) ==
    LET q == (1000 * a) \div b
        r == (1000 * a) % b
    IN  IF 2 * r > b \/ (2 * r = b /\ q % 2 = 1) THEN q + 1 ELSE q

\* progress_percent, rounded as to_dict rounds it
progress_percent(job) ==
    IF job.total > 0 THEN RoundTenths(job.processed, job.total) ELSE 0

\* a variant that takes the first errors
FirstErrors(errs) == SubSeq(errs, 1, Min(Len(errs), ErrorsShown))

\* self.errors[-10:]
LastErrors(errs) ==
    SubSeq(errs, Len(errs) - Min(Len(errs), ErrorsShown) + 1, Len(errs))

\* BatchJob.to_dict of the job with id j (the dates as they are, unformatted)
to_dict(j, job) ==
    [id |-> j, total |-> job.total, processed |-> job.processed,
     successful |-> job.successful, failed |-> job.failed,
     progress_percent |-> progress_percent(job), status |-> job.status,
     created_at |-> job.created_at, completed_at |-> job.completed_at,
     errors |-> LastErrors(job.errors)]

(***************************************************************************)
(* Items.  Each item of a batch is one process_item coroutine, which runs  *)
(* process_with_limit and _execute_with_retry on the item's task.  A       *)
(* coroutine runs without interruption from one suspension to the next     *)
(* (the locks of the service are never held across an await, so taking one *)
(* never suspends); its pc is where it is suspended:                       *)
(*   idle      no item                                                     *)
(*   queued    an item of a batch whose chunk has not started yet          *)
(*   start     created by gather, not yet run                              *)
(*   rl_sleep  asyncio.sleep(wait_time) after rate_limiter.acquire()       *)
(*   sem       waiting for a slot of the semaphore                         *)
(*   invoke    holds a slot, awaiting the task                             *)
(*   backoff   holds a slot, asyncio.sleep(delay) between two attempts     *)
(*   done      outcome recorded into the job                               *)
(* calls and rejects count the task invocations and the refusals of the    *)
(* breaker; out and err keep what the coroutine ended with.                *)
(***************************************************************************)
\* what the task of an item does: return a payload (ok), return an empty
\* payload such as {} (empty), always raise an error that is not retryable
\* (fatal), always raise a retryable one (transient), raise a retryable one
\* the first time it is invoked and return a payload after that (flaky)
Kinds == {"ok", "empty", "fatal", "transient", "flaky"}

IdleItem ==
    [pc |-> "idle", kind |-> "ok", attempt |-> 0, wake |-> 0, calls |-> 0,
     rejects |-> 0, out |-> "none", err |-> NoError,
     stored |-> FALSE, records |-> 0]

\* the task (processor) of an item: what its calls-th invocation does
TaskRaises(kind, calls) ==
    \/ kind \in {"fatal", "transient"}
    \/ kind = "flaky" /\ calls = 1

TaskError(kind) == IF kind = "fatal" THEN FatalError ELSE TransientError

\* the value the task of item k returns
TaskResult(kind, k) == IF kind = "empty" THEN <<>> ELSE <<k>>

InSemaphore(id) == item[id].pc \in {"invoke", "backoff"}

\* a variant that keeps the slot when the call ends with an exception
Leave_leak(id, it, success, result, error, sem) ==
    /\ LockFree("jobs")
    /\ semaphore' = IF success THEN sem + 1 ELSE sem
    /\ jobs' = [jobs EXCEPT ![id[1]] =
                  update_batch_progress(@, success, result, error, id[2], now)]
    /\ item' = [item EXCEPT ![id] =
                  [it EXCEPT !.pc = "done",
                             !.out = IF success THEN "ok" ELSE "err",
                             !.err = error,
                             !.stored = IF success THEN @ ELSE FALSE]]

\* a variant whose update is lost when another item of the job is in flight
Leave_lost(id, it, success, result, error, sem) ==
    /\ LockFree("jobs")
    /\ semaphore' = sem + 1
    /\ jobs' = [jobs EXCEPT ![id[1]] =
                  IF \E k \in ItemIds :
                        k # id /\ k[1] = id[1] /\ InSemaphore(k)
                  THEN @
                  ELSE update_batch_progress(@, success, result, error,
                                             id[2], now)]
    /\ item' = [item EXCEPT ![id] =
                  [it EXCEPT !.pc = "done",
                             !.out = IF success THEN "ok" ELSE "err",
                             !.err = error,
                             !.stored = IF success THEN @ ELSE FALSE]]

\* _execute_with_retry returns or raises: the slot is released and
\* process_item records the outcome into its job.  `it` is the item so far
\* and sem the free slots while it holds one.  When the item is an uploaded
\* file, the exception lands in the except branch of process_file_atomic,
\* which deletes the stored file (an item of process_batch has none).
Leave(id, it, success, result, error, sem) ==
    /\ LockFree("jobs")
    /\ semaphore' = sem + 1
    /\ jobs' = [jobs EXCEPT ![id[1]] =
                  update_batch_progress(@, success, result, error, id[2], now)]
    /\ item' = [item EXCEPT ![id] =
                  [it EXCEPT !.pc = "done",
                             !.out = IF success THEN "ok" ELSE "err",
                             !.err = error,
                             !.stored = IF success THEN @ ELSE FALSE]]

\* a variant that allows one retry more
Except_extra(id, it, e, cb, sem) ==
    /\ LockFree("breaker")
    /\ circuit_breaker' = record_failure(cb, now)
    /\ IF ~_is_retryable_error(e) \/ it.attempt > MaxRetries
       THEN Leave(id, it, FALSE, <<>>, e, sem)
       ELSE /\ item' = [item EXCEPT ![id] =
                  [it EXCEPT !.pc = "backoff",
                             !.wake = SleepUntil(now,
                                         retry_delay(it.attempt, now))]]
            /\ semaphore' = sem
            /\ UNCHANGED jobs

\* the except branch of _execute_with_retry for exception e; cb is the
\* breaker when the exception is caught
Except(id, it, e, cb, sem) ==
    /\ LockFree("breaker")
    /\ circuit_breaker' = record_failure(cb, now)
    /\ IF ~_is_retryable_error(e) \/ it.attempt >= MaxRetries
       THEN Leave(id, it, FALSE, <<>>, e, sem)
       ELSE /\ item' = [item EXCEPT ![id] =
                  [it EXCEPT !.pc = "backoff",
                             !.wake = SleepUntil(now,
                                         retry_delay(it.attempt, now))]]
            /\ semaphore' = sem
            /\ UNCHANGED jobs

\* a variant that starts the task whatever the circuit breaker answers
TryAttempt_unchecked(id, it, cb, sem) ==
    LET r == can_execute(cb, now) IN
    /\ circuit_breaker' = r.cb
    /\ item' = [item EXCEPT ![id] =
                  [it EXCEPT !.pc = "invoke", !.calls = @ + 1]]
    /\ semaphore' = sem
    /\ UNCHANGED jobs

\* one pass of the retry loop up to the await of the task: the circuit
\* breaker check, then the task is started or the refusal is raised
TryAttempt(id, it, cb, sem) ==
    LET r == can_execute(cb, now) IN
    /\ LockFree("breaker")
    /\ IF r.ret
       THEN /\ circuit_breaker' = r.cb
            /\ item' = [item EXCEPT ![id] =
                          [it EXCEPT !.pc = "invoke", !.calls = @ + 1]]
            /\ semaphore' = sem
            /\ UNCHANGED jobs
       ELSE Except(id, [it EXCEPT !.rejects = @ + 1], CircuitOpenError, r.cb,
                   sem)

\* a variant that takes a slot when none is free
SemTake_any(n) == TRUE

\* async with self.semaphore: a slot can be taken
SemTake(n) == n > 0

\* async with self.semaphore: take a slot and run the first attempt, or wait
EnterGate(id, it) ==
    IF SemTake(semaphore)
    THEN TryAttempt(id, [it EXCEPT !.attempt = 0], circuit_breaker,
                    semaphore - 1)
    ELSE /\ item' = [item EXCEPT ![id] = [it EXCEPT !.pc = "sem"]]
         /\ UNCHANGED <<semaphore, circuit_breaker, jobs>>

\* a variant that sleeps inside the lock of the bucket
RateAcquire_locked(id) ==
    LET r == acquire(rate_limiter, 1, now) IN
    /\ LockFree("bucket")
    /\ item[id].pc = "start"
    /\ rate_limiter' = r.tb
    /\ IF r.wait > 0
       THEN /\ item' = [item EXCEPT ![id].pc = "rl_sleep",
                                    ![id].wake = SleepUntil(now, r.wait)]
            /\ locks' = [locks EXCEPT !.bucket = id]
            /\ UNCHANGED <<semaphore, circuit_breaker, jobs>>
       ELSE EnterGate(id, item[id]) /\ UNCHANGED locks
    /\ UNCHANGED <<backoff, status_resp, tb_hist, concurrency, now, cb_hist, batch_jobs, orch>>

\* a variant that takes its slot before the sleep and keeps it while asleep
RateAcquire_holding(id) ==
    LET r == acquire(rate_limiter, 1, now) IN
    /\ LockFree("bucket")
    /\ item[id].pc = "start"
    /\ rate_limiter' = r.tb
    /\ IF r.wait > 0
       THEN /\ semaphore > 0
            /\ semaphore' = semaphore - 1
            /\ item' = [item EXCEPT ![id].pc = "rl_sleep",
                                    ![id].wake = SleepUntil(now, r.wait)]
            /\ UNCHANGED <<circuit_breaker, jobs>>
       ELSE EnterGate(id, item[id])
    /\ UNCHANGED <<locks, backoff, status_resp, tb_hist, concurrency, now, cb_hist, batch_jobs, orch>>

\* the coroutine starts: rate_limiter.acquire(), then the sleep or the gate
RateAcquire(id) ==
    LET r == acquire(rate_limiter, 1, now) IN
    /\ LockFree("bucket")
    /\ item[id].pc = "start"
    /\ rate_limiter' = r.tb
    /\ IF r.wait > 0
       THEN /\ item' = [item EXCEPT ![id].pc = "rl_sleep",
                                    ![id].wake = SleepUntil(now, r.wait)]
            /\ UNCHANGED <<semaphore, circuit_breaker, jobs>>
       ELSE EnterGate(id, item[id])
    /\ UNCHANGED <<locks, backoff, status_resp, tb_hist, concurrency, now, cb_hist, batch_jobs, orch>>

\* the end of asyncio.sleep(wait_time): on to the gate, with no new acquire
RateWake(id) ==
    /\ item[id].pc = "rl_sleep"
    /\ now >= item[id].wake
    /\ EnterGate(id, item[id])
    /\ UNCHANGED <<locks, backoff, status_resp, tb_hist, concurrency, now, cb_hist, rate_limiter, batch_jobs, orch>>

\* a waiter of the semaphore gets a slot
SemAcquire(id) ==
    /\ item[id].pc = "sem"
    /\ SemTake(semaphore)
    /\ TryAttempt(id, [item[id] EXCEPT !.attempt = 0], circuit_breaker,
                  semaphore - 1)
    /\ UNCHANGED <<locks, backoff, status_resp, tb_hist, concurrency, now, cb_hist, rate_limiter, batch_jobs, orch>>

\* the task returns or raises
TaskEnds(id) ==
    /\ LockFree("breaker")
    /\ item[id].pc = "invoke"
    /\ IF TaskRaises(item[id].kind, item[id].calls)
       THEN Except(id, item[id], TaskError(item[id].kind), circuit_breaker,
                   semaphore)
       ELSE /\ circuit_breaker' = record_success(circuit_breaker)
            /\ Leave(id, item[id], TRUE,
                     TaskResult(item[id].kind, id[2]), NoError,
                     semaphore)
    /\ UNCHANGED <<locks, backoff, status_resp, tb_hist, concurrency, now, cb_hist, rate_limiter, batch_jobs, orch>>

\* the end of the backoff sleep: the next attempt
BackoffWake(id) ==
    /\ item[id].pc = "backoff"
    /\ now >= item[id].wake
    /\ TryAttempt(id, [item[id] EXCEPT !.attempt = @ + 1], circuit_breaker,
                  semaphore)
    /\ UNCHANGED <<locks, backoff, status_resp, tb_hist, concurrency, now, cb_hist, rate_limiter, batch_jobs, orch>>

(***************************************************************************)
(* QueueService.process_batch                                              *)
(* orch[j].pc: none (not called), gather (awaiting the chunk that starts   *)
(* after item i), delay (the sleep between chunks), returned.              *)
(***************************************************************************)
NoOrch == [pc |-> "none", n |-> 0, i |-> 0]

Chunk(o) == (o.i + 1)..Min(o.i + ChunkSize, o.n)

\* a variant of the wait for a chunk that ends with its first finished item
ChunkDone_first(j) == \E k \in Chunk(orch[j]) : item[<<j, k>>].pc = "done"

\* await asyncio.gather(*tasks): every coroutine of the chunk has ended
ChunkDone(j) == \A k \in Chunk(orch[j]) : item[<<j, k>>].pc = "done"

\* a variant whose chunk begins with the last item of the chunk before
Dispatch_overlap(j, n, i, its) ==
    [id \in ItemIds |->
        IF id[1] = j /\ id[2] >= 1 /\ id[2] \in i..Min(i + ChunkSize, n)
        THEN [its[id] EXCEPT !.pc = "start"] ELSE its[id]]

\* tasks = [process_item(item) for item in chunk] for the chunk after item i
Dispatch(j, n, i, its) ==
    [id \in ItemIds |->
        IF id[1] = j /\ id[2] \in (i + 1)..Min(i + ChunkSize, n)
        THEN [its[id] EXCEPT !.pc = "start"] ELSE its[id]]

\* job ids are handed out in order (uuid4 in the code: any fresh id)
NextJobId == Cardinality({j \in JobIds : jobs[j].status # "absent"}) + 1

ItemsSubmitted == Cardinality({id \in ItemIds : item[id].pc # "idle"})

\* process_batch(items, processor) is called: the job is created and the
\* first chunk, if there is one, is started; K is what the tasks may do
SubmitBatch(j, K) ==
    /\ LockFree("jobs")
    /\ orch[j].pc = "none"
    /\ j = NextJobId
    /\ \E n \in 0..Min(MaxItems, MaxTotalItems - ItemsSubmitted) :
       \E kinds \in [1..n -> K] :
         /\ jobs' = [jobs EXCEPT ![j] = BatchJob(n, now)]
         /\ batch_jobs' = batch_jobs \cup {j}
         /\ orch' = [orch EXCEPT ![j] =
                       [pc |-> IF n = 0 THEN "returned" ELSE "gather",
                        n |-> n, i |-> 0]]
         /\ item' = Dispatch(j, n, 0,
                       [id \in ItemIds |->
                          IF id[1] = j /\ id[2] <= n
                          THEN [item[id] EXCEPT !.kind = kinds[id[2]],
                                                !.pc = "queued"]
                          ELSE item[id]])
    /\ UNCHANGED <<locks, backoff, status_resp, tb_hist, concurrency, now, circuit_breaker, cb_hist, rate_limiter, semaphore>>

\* gather returns: sleep before the next chunk, or return the job
GatherDone(j) ==
    /\ orch[j].pc = "gather"
    /\ ChunkDone(j)
    /\ orch' = [orch EXCEPT ![j].pc =
                  IF orch[j].i + ChunkSize < orch[j].n
                  THEN "delay" ELSE "returned"]
    /\ UNCHANGED <<locks, backoff, status_resp, tb_hist, concurrency, now, circuit_breaker, cb_hist, rate_limiter, semaphore,
                   batch_jobs, jobs, item>>

\* the end of asyncio.sleep(0.1), a tenth of a tick: the next chunk starts
NextChunk(j) ==
    /\ orch[j].pc = "delay"
    /\ orch' = [orch EXCEPT ![j].pc = "gather", ![j].i = @ + ChunkSize]
    /\ item' = Dispatch(j, orch[j].n, orch[j].i + ChunkSize, item)
    /\ UNCHANGED <<locks, backoff, status_resp, tb_hist, concurrency, now, circuit_breaker, cb_hist, rate_limiter, semaphore,
                   batch_jobs, jobs>>

QueueInit ==
    /\ locks = NoLocks
    /\ rate_limiter = TokenBucketInit
    /\ concurrency \in 1..MaxConcurrency
    /\ semaphore = concurrency
    /\ batch_jobs = {}
    /\ jobs = [j \in JobIds |-> NoJob]
    /\ orch = [j \in JobIds |-> NoOrch]
    /\ item = [id \in ItemIds |-> IdleItem]

(***************************************************************************)
(* The breaker alone, driven by any sequence of calls at any times.        *)
(***************************************************************************)
CbHistInit ==
    [op |-> "init", ret |-> FALSE, pre |-> "closed", run |-> 0, probe |-> 0,
     reopened |-> FALSE, admitted |-> 0]

\* no status query made yet; seen is the job as the query found it, repeat
\* tells that the query before it was of the same job and found it with the
\* same fields, and prev is the body of that query
NoResponse ==
    [job_id |-> 0, code |-> 0, body |-> to_dict(0, NoJob), seen |-> NoJob,
     repeat |-> FALSE, prev |-> to_dict(0, NoJob)]

\* the response of the status query of job j after the response last
Response(j, last) ==
    LET rep == last.code = 200 /\ last.job_id = j /\ last.seen = jobs[j] IN
    IF j \in batch_jobs
    THEN [job_id |-> j, code |-> 200, body |-> to_dict(j, jobs[j]),
          seen |-> jobs[j], repeat |-> rep,
          prev |-> IF rep THEN last.body ELSE to_dict(0, NoJob)]
    ELSE [NoResponse EXCEPT !.job_id = j, !.code = 404]

\* no acquire() made yet
TbHistInit == [op |-> "init", n |-> 0, wait |-> 0, pre |-> TokenBucketInit]

\* no _execute_with_retry call taken alone
NoBackoff == [base_delay |-> 0, max_delay |-> 0, attempt |-> 0,
              delays |-> <<>>]

InitService ==
    /\ now = 1
    /\ circuit_breaker = CircuitBreakerInit
    /\ cb_hist = CbHistInit
    /\ tb_hist = TbHistInit
    /\ status_resp = NoResponse
    /\ QueueInit

InitBreaker ==
    /\ InitService
    /\ backoff = NoBackoff

\* time passes
CbTick ==
    /\ now < MaxBreakerTime
    /\ now' = now + 1
    /\ cb_hist' = [cb_hist EXCEPT !.op = "tick"]
    /\ UNCHANGED <<locks, backoff, status_resp, tb_hist, concurrency, circuit_breaker, queue_vars>>

CbCanExecute ==
    LET r == can_execute(circuit_breaker, now) IN
    /\ LockFree("breaker")
    /\ circuit_breaker' = r.cb
    /\ cb_hist' = [cb_hist EXCEPT
            !.op = "can", !.ret = r.ret, !.pre = circuit_breaker.state,
            !.probe = IF r.cb.state = "half-open"
                         /\ circuit_breaker.state = "open" THEN 0 ELSE @,
            !.admitted = IF r.cb.state = "half-open" /\ r.ret
                         THEN IF circuit_breaker.state = "open" THEN 1
                              ELSE Min(@ + 1, HalfOpenMax + 1)
                         ELSE @]
    /\ UNCHANGED <<locks, backoff, status_resp, tb_hist, concurrency, now, queue_vars>>

CbRecordSuccess ==
    LET c == record_success(circuit_breaker) IN
    /\ LockFree("breaker")
    /\ circuit_breaker' = c
    /\ cb_hist' = [cb_hist EXCEPT
            !.op = "succ", !.pre = circuit_breaker.state,
            !.run = IF c.state = "closed" /\ c.failures = 0 THEN 0 ELSE -1,
            !.probe = IF circuit_breaker.state = "half-open" THEN @ + 1 ELSE @]
    /\ UNCHANGED <<locks, backoff, status_resp, tb_hist, concurrency, now, queue_vars>>

CbRecordFailure ==
    /\ LockFree("breaker")
    /\ circuit_breaker.failures < MaxFailures
    /\ circuit_breaker' = record_failure(circuit_breaker, now)
    /\ cb_hist' = [cb_hist EXCEPT
            !.op = "fail", !.pre = circuit_breaker.state,
            !.run = IF @ >= 0 /\ @ <= FailureThreshold THEN @ + 1 ELSE -1,
            !.reopened = IF circuit_breaker.state = "half-open"
                            /\ circuit_breaker.half_open_successes > 0
                         THEN TRUE ELSE @]
    /\ UNCHANGED <<locks, backoff, status_resp, tb_hist, concurrency, now, queue_vars>>

NextBreaker ==
    \/ CbTick
    \/ CbCanExecute
    \/ CbRecordSuccess
    \/ CbRecordFailure

SpecBreaker == InitBreaker /\ [][NextBreaker]_vars

(***************************************************************************)
(* The token bucket alone: acquire(n) called by any callers at any times.  *)
(* The lock of the bucket is never held across an await, so the calls of   *)
(* concurrent callers run one after the other.                             *)
(***************************************************************************)
InitBucket == InitBreaker

\* time passes
TbTick ==
    /\ now < MaxBucketTime
    /\ now' = now + 1
    /\ UNCHANGED <<locks, backoff, status_resp, tb_hist, concurrency, circuit_breaker, cb_hist, queue_vars>>

\* some caller calls acquire(n); tb_hist keeps the call and the bucket
\* before it
TbAcquire(n) ==
    LET r == acquire(rate_limiter, n, now) IN
    /\ LockFree("bucket")
    /\ rate_limiter' = r.tb
    /\ tb_hist' = [op |-> "acquire", n |-> n, wait |-> r.wait,
                   pre |-> rate_limiter]
    /\ UNCHANGED <<locks, backoff, status_resp, concurrency, now, circuit_breaker, cb_hist, semaphore,
                   batch_jobs, jobs, orch, item>>

NextBucket ==
    \/ TbTick
    \/ \E n \in 0..MaxAcquire : TbAcquire(n)

SpecBucket == InitBucket /\ [][NextBucket]_vars

(***************************************************************************)
(* The queue service running process_batch calls.                          *)
(***************************************************************************)
Init == InitBreaker

\* time passes
Tick ==
    /\ now < MaxTime
    /\ now' = now + 1
    /\ UNCHANGED <<locks, backoff, status_resp, tb_hist, concurrency, circuit_breaker, cb_hist, queue_vars>>

Next ==
    \/ Tick
    \/ SubmitBatch(1, Kinds)
    \/ \E j \in JobIds : GatherDone(j)
    \/ \E j \in JobIds : NextChunk(j)
    \/ \E id \in ItemIds : RateAcquire(id)
    \/ \E id \in ItemIds : RateWake(id)
    \/ \E id \in ItemIds : SemAcquire(id)
    \/ \E id \in ItemIds : TaskEnds(id)
    \/ \E id \in ItemIds : BackoffWake(id)

Spec == Init /\ [][Next]_vars

(***************************************************************************)
(* C3 (as claimed): when process_batch returns, every item whose task      *)
(* never raises has ended in success, is counted in successful and has its *)
(* result in results, whatever its siblings did.                           *)
(***************************************************************************)
InResults(j, r) == \E x \in DOMAIN jobs[j].results : jobs[j].results[x] = r

Succeeded(j) == {k \in 1..orch[j].n : item[<<j, k>>].out = "ok"}

C3_FailureIsolation ==
    \A j \in JobIds : orch[j].pc = "returned" =>
        /\ jobs[j].successful = Cardinality(Succeeded(j))
        /\ jobs[j].failed = orch[j].n - Cardinality(Succeeded(j))
        /\ \A k \in 1..orch[j].n :
              item[<<j, k>>].kind \in {"ok", "empty"} =>
                 /\ k \in Succeeded(j)
                 /\ InResults(j, TaskResult(item[<<j, k>>].kind, k))

(***************************************************************************)
(* C6 (as claimed): the job of every batch, of any size >= 0, reaches a    *)
(* terminal status.  Nothing updates a job after its process_batch has     *)
(* returned, so the job of a returned batch is terminal.                   *)
(***************************************************************************)
C6_JobTerminates ==
    \A j \in JobIds : orch[j].pc = "returned" => jobs[j].status \in Terminal

(***************************************************************************)
(* C7: within one batch no item of a later chunk reaches                   *)
(* rate_limiter.acquire() before every item of the earlier chunks is       *)
(* recorded in the job.                                                    *)
(***************************************************************************)
ChunkOf(k) == (k - 1) \div ChunkSize

ReachedAcquire(id) == item[id].pc \notin {"idle", "queued", "start"}

C7_ChunkOrder ==
    \A j \in JobIds : \A k \in 1..MaxItems :
        ReachedAcquire(<<j, k>>) =>
            /\ \A h \in 1..MaxItems :
                  ChunkOf(h) < ChunkOf(k) => item[<<j, h>>].pc = "done"
            /\ jobs[j].processed >= ChunkOf(k) * ChunkSize

\* an item of the second chunk is running, and the two items of the first
\* chunk were recorded in the order opposite to their dispatch
C7_Witness ==
    /\ item[<<1, ChunkSize + 1>>].pc = "invoke"
    /\ Len(jobs[1].results) >= 2
    /\ jobs[1].results[1] = <<2>>
    /\ jobs[1].results[2] = <<1>>

NextGate ==
    \/ Tick
    \/ \E j \in JobIds : SubmitBatch(j, {"ok", "transient"})
    \/ \E j \in JobIds : GatherDone(j)
    \/ \E j \in JobIds : NextChunk(j)
    \/ \E id \in ItemIds : RateAcquire(id)
    \/ \E id \in ItemIds : RateWake(id)
    \/ \E id \in ItemIds : SemAcquire(id)
    \/ \E id \in ItemIds : TaskEnds(id)
    \/ \E id \in ItemIds : BackoffWake(id)

SpecGate == Init /\ [][NextGate]_vars

(***************************************************************************)
(* C4: the items inside the semaphore (inside _execute_with_retry) are     *)
(* never more than concurrency, whatever the number of batches running.    *)
(***************************************************************************)
C4_GateBound ==
    Cardinality({id \in ItemIds : InSemaphore(id)}) <= concurrency

\* the gate is full with items of two batches and a third item waits
C4_Witness ==
    /\ concurrency > 1
    /\ Cardinality({id \in ItemIds : InSemaphore(id)}) = concurrency
    /\ \E a, b \in ItemIds :
          InSemaphore(a) /\ InSemaphore(b) /\ a[1] # b[1]
    /\ \E c \in ItemIds : item[c].pc = "sem"

(***************************************************************************)
(* The upload router: upload_bulk_async with its background process_batch, *)
(* cancel_batch_job and cleanup_old_jobs.  upload_single_async is the bulk *)
(* upload of one valid file: a job of total 1 and one process_file_atomic. *)
(* The task given to process_with_limit is ocr_service.process_file, which *)
(* catches every exception and returns a status instead, so here a task    *)
(* never raises.  An item has one more position:                           *)
(*   post      process_with_limit has returned and the slot is released;   *)
(*             awaiting storage_service.delete_file or db.create           *)
(* and its orchestrator one more: scheduled (the background task is added  *)
(* and has not started yet).                                               *)
(***************************************************************************)
\* what happens to a file: the provider extracts it (ok), or the provider
\* call raises (ocr_failed)
UploadKinds == {"ok", "ocr_failed"}

\* provider.extract_biodata raises for the file: a rate limit (429), a
\* timeout, or any other exception.  process_file catches every Exception
\* and returns the status FAILED with the message as raw_text.
ProviderRaises(kind) == kind = "ocr_failed"

\* "File too large. Max size: 10MB", a message of validate_file_size
ValidationError == [pat |-> {}, len |-> 30]

\* "OCR Failed", the shortest message of a failed process_file_atomic
OcrFailedError == [pat |-> {}, len |-> 10]

\* a variant that starts the file's coroutine inside the request
Queued_started(it, kind) ==
    [it EXCEPT !.kind = kind, !.pc = "start", !.stored = TRUE]

\* save_file_content and file_data_list.append(...): a file saved by the
\* request, to be processed by the background task
Queued(it, kind) ==
    [it EXCEPT !.kind = kind, !.pc = "queued", !.stored = TRUE]

\* a variant of the job's total that leaves out the files refused by validation
JobTotal_queued(nq, nv) == nq

\* len(file_data_list) + len(validation_errors)
JobTotal(nq, nv) == nq + nv

\* for err in validation_errors: update_batch_progress(job, success=False, ...)
RECURSIVE AddValidationErrors(_, _, _)
AddValidationErrors(job, nv, t) ==
    IF nv = 0 THEN job
    ELSE AddValidationErrors(
             update_batch_progress(job, FALSE, <<>>, ValidationError, nv, t),
             nv - 1, t)

\* POST /bulk/async with nq files that pass validation and nv that do not
\* (File(...) requires one file at least): the job is created, the validation
\* errors are recorded and the background task is scheduled; K is what may
\* happen to a file
UploadBulkAsync(j, K) ==
    /\ LockFree("jobs")
    /\ orch[j].pc = "none"
    /\ j = NextJobId
    /\ \E nq \in 0..Min(MaxItems, MaxTotalItems - ItemsSubmitted) :
       \E nv \in 0..MaxInvalid :
       \E kinds \in [1..nq -> K] :
         /\ nq + nv >= 1
         /\ jobs' = [jobs EXCEPT ![j] =
                       AddValidationErrors(BatchJob(JobTotal(nq, nv), now),
                                           nv, now)]
         /\ batch_jobs' = batch_jobs \cup {j}
         /\ orch' = [orch EXCEPT ![j] =
                       [pc |-> "scheduled", n |-> nq, i |-> 0]]
         /\ item' = [id \in ItemIds |->
                       IF id[1] = j /\ id[2] <= nq
                       THEN Queued(item[id], kinds[id[2]])
                       ELSE item[id]]
    /\ UNCHANGED <<locks, backoff, status_resp, tb_hist, concurrency, now, circuit_breaker, cb_hist, rate_limiter, semaphore>>

\* the background process_batch starts: the first chunk, if there is a file
BackgroundStart(j) ==
    /\ orch[j].pc = "scheduled"
    /\ orch' = [orch EXCEPT ![j].pc =
                  IF orch[j].n = 0 THEN "returned" ELSE "gather"]
    /\ item' = Dispatch(j, orch[j].n, 0, item)
    /\ UNCHANGED <<locks, backoff, status_resp, tb_hist, concurrency, now, circuit_breaker, cb_hist, rate_limiter, semaphore,
                   batch_jobs, jobs>>

\* ocr_service.process_file returns: _execute_with_retry records the success
\* and returns, the slot is released
UploadTaskEnds(id) ==
    /\ LockFree("breaker")
    /\ item[id].pc = "invoke"
    /\ circuit_breaker' = record_success(circuit_breaker)
    /\ semaphore' = semaphore + 1
    /\ item' = [item EXCEPT ![id].pc = "post"]
    /\ UNCHANGED <<locks, backoff, status_resp, tb_hist, concurrency, now, cb_hist, rate_limiter, batch_jobs, jobs, orch>>

\* "[Errno 28] No space left on device", an error of db.create
DbCreateError == [pat |-> {}, len |-> 37]

\* what is left of process_file_atomic once process_with_limit has returned,
\* as the set of its possible ends: status is the status of the returned
\* dict, created the records appended to the database, kept whether the
\* stored file is still there.  db.create appends the record to the cached
\* data and then writes the file: it can raise before the append (the lock,
\* the read) or in _write_data, after it.
process_file_atomic(kind) ==
    CASE kind = "ocr_failed" ->
            {[status |-> "failed", created |-> 0, kept |-> FALSE,
              err |-> OcrFailedError]}
      [] kind = "db_error" ->
            {[status |-> "failed", created |-> c, kept |-> FALSE,
              err |-> DbCreateError] : c \in {0, 1}}
      [] OTHER ->
            {[status |-> "completed", created |-> 1, kept |-> TRUE,
              err |-> NoError]}

\* a variant that drops the result of a file whose job was cancelled
PostEnds_unlessCancelled(id) ==
    /\ LockFree("jobs")
    /\ item[id].pc = "post"
    /\ \E r \in process_file_atomic(item[id].kind) :
        LET success == r.status # "failed" IN
        /\ jobs' = [jobs EXCEPT ![id[1]] =
                      IF @.cancelled THEN @
                      ELSE update_batch_progress(@, success,
                               IF success
                               THEN TaskResult(item[id].kind, id[2])
                               ELSE <<>>,
                               r.err, id[2], now)]
        /\ item' = [item EXCEPT ![id].pc = "done",
                                ![id].out = IF success THEN "ok" ELSE "err",
                                ![id].err = r.err,
                                ![id].stored = r.kept,
                                ![id].records = @ + r.created]
    /\ UNCHANGED <<locks, backoff, status_resp, tb_hist, concurrency, now, circuit_breaker, cb_hist, rate_limiter, semaphore,
                   batch_jobs, orch>>

\* process_file_atomic returns and process_one records its result
PostEnds(id) ==
    /\ LockFree("jobs")
    /\ item[id].pc = "post"
    /\ \E r \in process_file_atomic(item[id].kind) :
        LET success == r.status # "failed" IN
        /\ jobs' = [jobs EXCEPT ![id[1]] =
                      update_batch_progress(@, success,
                          IF success THEN TaskResult(item[id].kind, id[2])
                          ELSE <<>>,
                          r.err, id[2], now)]
        /\ item' = [item EXCEPT ![id].pc = "done",
                                ![id].out = IF success THEN "ok" ELSE "err",
                                ![id].err = r.err,
                                ![id].stored = r.kept,
                                ![id].records = @ + r.created]
    /\ UNCHANGED <<locks, backoff, status_resp, tb_hist, concurrency, now, circuit_breaker, cb_hist, rate_limiter, semaphore,
                   batch_jobs, orch>>

\* a variant that also takes the job out of the table
CancelBatchJob_remove(j) ==
    /\ LockFree("jobs")
    /\ j \in batch_jobs
    /\ jobs' = [jobs EXCEPT ![j] =
                  IF @.status = "processing"
                  THEN [@ EXCEPT !.status = "failed",
                                 !.completed_at = now,
                                 !.completions = @ + 1,
                                 !.cancelled = TRUE]
                  ELSE [@ EXCEPT !.cancelled = TRUE]]
    /\ batch_jobs' = batch_jobs \ {j}
    /\ UNCHANGED <<locks, backoff, status_resp, tb_hist, concurrency, now, circuit_breaker, cb_hist, rate_limiter, semaphore,
                   orch, item>>

\* DELETE /batch/{job_id} for a job that get_batch_job finds
CancelBatchJob(j) ==
    /\ LockFree("jobs")
    /\ j \in batch_jobs
    /\ jobs' = [jobs EXCEPT ![j] =
                  IF @.status = "processing"
                  THEN [@ EXCEPT !.status = "failed",
                                 !.completed_at = now,
                                 !.completions = @ + 1,
                                 !.cancelled = TRUE]
                  ELSE [@ EXCEPT !.cancelled = TRUE]]
    /\ UNCHANGED <<locks, backoff, status_resp, tb_hist, concurrency, now, circuit_breaker, cb_hist, rate_limiter, semaphore,
                   batch_jobs, orch, item>>

\* a variant that also removes the jobs completed exactly max_age ago
cleanup_old_jobs_inclusive(max_age) ==
    /\ LockFree("jobs")
    /\ batch_jobs' = {j \in batch_jobs :
                        ~(jobs[j].completed_at # None
                          /\ now - jobs[j].completed_at >= max_age)}
    /\ UNCHANGED <<locks, backoff, status_resp, tb_hist, concurrency, now, circuit_breaker, cb_hist, rate_limiter, semaphore,
                   jobs, orch, item>>

\* cleanup_old_jobs(max_age_hours): the jobs completed more than max_age ago
\* leave the table; the coroutines that hold such a job keep updating it
cleanup_old_jobs(max_age) ==
    /\ LockFree("jobs")
    /\ batch_jobs' = {j \in batch_jobs :
                        ~(jobs[j].completed_at # None
                          /\ now - jobs[j].completed_at > max_age)}
    /\ UNCHANGED <<locks, backoff, status_resp, tb_hist, concurrency, now, circuit_breaker, cb_hist, rate_limiter, semaphore,
                   jobs, orch, item>>

\* a variant that empties the errors of the job it reports
get_batch_status_pop(j) ==
    /\ LockFree("jobs")
    /\ status_resp' = Response(j, status_resp)
    /\ jobs' = [jobs EXCEPT ![j].errors = <<>>]
    /\ UNCHANGED <<locks, backoff, tb_hist, concurrency, now, circuit_breaker, cb_hist,
                   rate_limiter, semaphore, batch_jobs, orch, item>>

\* GET /batch/{job_id}/status: 404 when get_batch_job finds no job
get_batch_status(j) ==
    /\ LockFree("jobs")
    /\ status_resp' = Response(j, status_resp)
    /\ UNCHANGED <<locks, backoff, tb_hist, concurrency, now, circuit_breaker, cb_hist,
                   rate_limiter, semaphore, batch_jobs, jobs, orch, item>>

(***************************************************************************)
(* The job table alone: jobs created, outcomes recorded one per unit of    *)
(* the total, cancels, sweeps and status queries, in any order and at any  *)
(* times.                                                                  *)
(***************************************************************************)
\* a message longer than the limit of an error record
LongError == [pat |-> {}, len |-> 250]

\* the outcomes recorded: a success with the result k, or a failure with a
\* message that is short, long or empty
Outcomes(k) ==
    {[success |-> TRUE, result |-> <<k>>, error |-> NoError],
     [success |-> FALSE, result |-> <<>>, error |-> FatalError],
     [success |-> FALSE, result |-> <<>>, error |-> LongError],
     [success |-> FALSE, result |-> <<>>, error |-> NoError]}

\* time passes
JobTick ==
    /\ now < MaxJobTime
    /\ now' = now + 1
    /\ UNCHANGED <<locks, backoff, status_resp, tb_hist, concurrency, circuit_breaker, cb_hist, queue_vars>>

\* create_batch_job(total) for a total up to T
create_batch_job(j, T) ==
    /\ LockFree("jobs")
    /\ j = NextJobId
    /\ \E total \in 0..T :
          jobs' = [jobs EXCEPT ![j] = BatchJob(total, now)]
    /\ batch_jobs' = batch_jobs \cup {j}
    /\ UNCHANGED <<locks, backoff, status_resp, tb_hist, concurrency, now, circuit_breaker, cb_hist,
                   rate_limiter, semaphore, orch, item>>

\* the outcome of the next item of job j is recorded; the filename of the
\* record is the ordinal of the outcome
RecordOutcome(j) ==
    /\ LockFree("jobs")
    /\ jobs[j].status # "absent"
    /\ jobs[j].processed < jobs[j].total
    /\ \E o \in Outcomes(jobs[j].processed + 1) :
          jobs' = [jobs EXCEPT ![j] =
                     update_batch_progress(@, o.success, o.result, o.error,
                                           jobs[j].processed + 1, now)]
    /\ UNCHANGED <<locks, backoff, status_resp, tb_hist, concurrency, now, circuit_breaker, cb_hist,
                   rate_limiter, semaphore, batch_jobs, orch, item>>

NextJob ==
    \/ JobTick
    \/ \E j \in 1..MaxJobsAlone : create_batch_job(j, MaxJobTotal)
    \/ \E j \in JobIds : RecordOutcome(j)
    \/ \E j \in JobIds : CancelBatchJob(j)
    \/ \E max_age \in 0..MaxAge : cleanup_old_jobs(max_age)
    \/ \E j \in JobIds : get_batch_status(j)

SpecJob == Init /\ [][NextJob]_vars

(***************************************************************************)
(* The job table swept: several small jobs created, recorded and cancelled *)
(* at any times, and cleanup_old_jobs called with any age.                 *)
(***************************************************************************)
NextSweep ==
    \/ Tick
    \/ \E j \in JobIds : create_batch_job(j, MaxSweepTotal)
    \/ \E j \in JobIds : RecordOutcome(j)
    \/ \E j \in JobIds : CancelBatchJob(j)
    \/ \E max_age \in 0..MaxAge : cleanup_old_jobs(max_age)

SpecSweep == Init /\ [][NextSweep]_vars

NextUpload ==
    \/ Tick
    \/ \E j \in 1..MaxUploads : UploadBulkAsync(j, UploadKinds)
    \/ \E j \in JobIds : BackgroundStart(j)
    \/ \E j \in JobIds : GatherDone(j)
    \/ \E j \in JobIds : NextChunk(j)
    \/ \E id \in ItemIds : RateAcquire(id)
    \/ \E id \in ItemIds : RateWake(id)
    \/ \E id \in ItemIds : SemAcquire(id)
    \/ \E id \in ItemIds : UploadTaskEnds(id)
    \/ \E id \in ItemIds : PostEnds(id)
    \/ \E j \in JobIds : CancelBatchJob(j)
    \/ \E max_age \in 0..MaxAge : cleanup_old_jobs(max_age)

SpecUpload == Init /\ [][NextUpload]_vars

\* the steps of the event loop: the background task and its coroutines
UploadProgress ==
    \/ \E j \in JobIds : BackgroundStart(j)
    \/ \E j \in JobIds : GatherDone(j)
    \/ \E j \in JobIds : NextChunk(j)
    \/ \E id \in ItemIds : RateAcquire(id)
    \/ \E id \in ItemIds : RateWake(id)
    \/ \E id \in ItemIds : SemAcquire(id)
    \/ \E id \in ItemIds : UploadTaskEnds(id)
    \/ \E id \in ItemIds : PostEnds(id)

\* the clock advances and the event loop runs a coroutine that is ready;
\* every call of ocr_service.process_file returns
(***************************************************************************)
(* One _execute_with_retry call taken alone, for a task that raises a       *)
(* retryable error each time: the delays it sleeps, for any base_delay and  *)
(* max_delay of the constructor and any fraction of a second of the loop's  *)
(* clock.  Times are in ticks of 1/BackoffTicksPerSec second.               *)
(***************************************************************************)
InitBackoff ==
    /\ InitService
    /\ \E b \in 1..MaxBackoffBase : \E m \in 0..MaxBackoffCap :
          backoff = [base_delay |-> b, max_delay |-> m, attempt |-> 0,
                     delays |-> <<>>]

\* the except branch of an attempt that is not the last: the delay is
\* computed and slept, and the loop goes on with the next attempt
BackoffSleep ==
    /\ backoff.attempt < MaxBackoffRetries
    /\ \E jitter \in 0..(BackoffTicksPerSec - 1) :
          backoff' = [backoff EXCEPT
                        !.delays = Append(@,
                            backoff_delay(backoff.base_delay,
                                          backoff.max_delay,
                                          backoff.attempt, jitter)),
                        !.attempt = @ + 1]
    /\ UNCHANGED <<locks, now, circuit_breaker, cb_hist, tb_hist, status_resp,
                   concurrency, queue_vars>>

NextBackoff == BackoffSleep

SpecBackoff == InitBackoff /\ [][NextBackoff]_vars

(***************************************************************************)
(* process_file_atomic at every point where it can fail: an upload whose    *)
(* files may fail in OCR or in db.create, next to a process_batch whose     *)
(* tasks raise and open the circuit breaker the uploads share.              *)
(***************************************************************************)
AtomicKinds == UploadKinds \cup {"db_error"}

IsFile(id) == item[id].kind \in AtomicKinds

NextAtomic ==
    \/ Tick
    \/ SubmitBatch(1, {"transient"}) /\ orch'[1].n = MaxAtomicBatch
    \/ UploadBulkAsync(2, AtomicKinds) /\ jobs'[2].total <= MaxAtomicFiles
    \/ \E j \in JobIds : BackgroundStart(j)
    \/ \E j \in JobIds : GatherDone(j)
    \/ \E id \in ItemIds : RateAcquire(id)
    \/ \E id \in ItemIds : RateWake(id)
    \/ \E id \in ItemIds : SemAcquire(id)
    \/ \E id \in ItemIds : ~IsFile(id) /\ TaskEnds(id)
    \/ \E id \in ItemIds : BackoffWake(id)
    \/ \E id \in ItemIds : IsFile(id) /\ UploadTaskEnds(id)
    \/ \E id \in ItemIds : PostEnds(id)

SpecAtomic == Init /\ [][NextAtomic]_vars

SpecUploadFair ==
    SpecUpload /\ WF_vars(Tick) /\ WF_vars(UploadProgress)

(***************************************************************************)
(* C1: every job that has been created has processed = successful + failed *)
(* and processed <= total, whatever uploads, recorded outcomes, cancels    *)
(* and sweeps of old jobs have happened.                                   *)
(***************************************************************************)
Created == {j \in JobIds : jobs[j].status # "absent"}

C1_Counters ==
    \A j \in Created :
        /\ jobs[j].processed = jobs[j].successful + jobs[j].failed
        /\ jobs[j].processed <= jobs[j].total

\* a job with a file refused by validation, a failed file and a processed one
\* has recorded them all after it was cancelled and swept from the table
C1_Witness ==
    \E j \in Created :
        /\ jobs[j].cancelled
        /\ j \notin batch_jobs
        /\ jobs[j].processed = jobs[j].total
        /\ jobs[j].total = MaxTotalItems
        /\ jobs[j].successful >= 1
        /\ jobs[j].failed >= 2
        /\ Len(jobs[j].errors) >= 2

(***************************************************************************)
(* C2 (as claimed): the status of a created job is terminal exactly when   *)
(* processed = total, also after cancel_batch_job was called on it.        *)
(***************************************************************************)
C2_TerminalIffDone ==
    \A j \in Created :
        jobs[j].status \in Terminal <=> jobs[j].processed = jobs[j].total

(***************************************************************************)
(* C5 (as claimed): completed_at is assigned once per job, in the step     *)
(* that brings processed to total, and once the status of a job is         *)
(* terminal no step changes its status or its completed_at, also when      *)
(* cancel_batch_job is called while items of the job are in flight.        *)
(***************************************************************************)
C5_FinalizedOnce ==
    [][\A j \in JobIds :
          /\ jobs[j].status \in Terminal =>
                /\ jobs'[j].status = jobs[j].status
                /\ jobs'[j].completed_at = jobs[j].completed_at
          /\ jobs'[j].completions # jobs[j].completions =>
                /\ jobs[j].completions = 0
                /\ jobs'[j].processed = jobs'[j].total]_vars

(***************************************************************************)
(* C8: starting from Closed with zero failures, fewer than                 *)
(* FailureThreshold consecutive record_failure() calls leave the breaker   *)
(* closed; after exactly FailureThreshold of them a can_execute() made     *)
(* before last_failure_time + RecoveryTimeout returns false; and from then *)
(* until the breaker is closed again a can_execute() returns true only     *)
(* when now >= last_failure_time + RecoveryTimeout.                        *)
(* cb_hist.run counts the record_failure() calls made since the breaker    *)
(* was last closed with zero failures (-1: a success came in between while *)
(* it was not closed).                                                     *)
(***************************************************************************)
C8_TripAndRecovery ==
    /\ cb_hist.run \in 0..(FailureThreshold - 1)
          => circuit_breaker.state = "closed"
    /\ (cb_hist.run = FailureThreshold /\ cb_hist.op = "can"
        /\ now < circuit_breaker.last_failure_time + RecoveryTimeout)
          => ~cb_hist.ret
    /\ (cb_hist.op = "can" /\ cb_hist.pre # "closed" /\ cb_hist.ret)
          => now >= circuit_breaker.last_failure_time + RecoveryTimeout

\* the breaker has just been tripped by exactly FailureThreshold failures and
\* the call made right after was refused
C8_Witness ==
    /\ cb_hist.run = FailureThreshold
    /\ cb_hist.op = "can"
    /\ cb_hist.pre = "open"
    /\ ~cb_hist.ret
    /\ now = circuit_breaker.last_failure_time

(***************************************************************************)
(* C9: cb_hist.probe counts the record_success() calls made since the      *)
(* breaker last entered half-open.  The HalfOpenMax-th of them closes the  *)
(* breaker with failures = 0 and an earlier one leaves it half-open; one   *)
(* record_failure() while half-open opens it; and every entry into         *)
(* half-open starts with half_open_successes = 0.                          *)
(***************************************************************************)
C9_HalfOpenProbe ==
    /\ (cb_hist.op = "succ" /\ cb_hist.pre = "half-open"
        /\ cb_hist.probe = HalfOpenMax)
          => (circuit_breaker.state = "closed" /\ circuit_breaker.failures = 0)
    /\ (cb_hist.op = "succ" /\ cb_hist.pre = "half-open"
        /\ cb_hist.probe < HalfOpenMax)
          => circuit_breaker.state = "half-open"
    /\ (cb_hist.op = "fail" /\ cb_hist.pre = "half-open")
          => circuit_breaker.state = "open"
    /\ (cb_hist.op = "can" /\ cb_hist.pre = "open"
        /\ circuit_breaker.state = "half-open")
          => (circuit_breaker.half_open_successes = 0 /\ cb_hist.probe = 0)

\* the breaker has been closed by the HalfOpenMax-th success of a probe that
\* followed an earlier, failed probe
C9_Witness ==
    /\ cb_hist.op = "succ"
    /\ cb_hist.pre = "half-open"
    /\ cb_hist.probe = HalfOpenMax
    /\ circuit_breaker.state = "closed"
    /\ cb_hist.reopened

(***************************************************************************)
(* C11: the step in which the task of an item raises an error that is not  *)
(* retryable ends the _execute_with_retry call with that error: the task   *)
(* was invoked once and is not invoked again, the item does not go to a    *)
(* backoff sleep, and the step applies record_failure() once (failures     *)
(* grows by one and last_failure_time is the time of the step).            *)
(***************************************************************************)
C11_FatalPropagates ==
    [][\A id \in ItemIds :
          (item[id].pc = "invoke" /\ item[id].kind = "fatal"
           /\ item'[id] # item[id]) =>
             /\ item'[id].pc = "done"
             /\ item'[id].out = "err"
             /\ item'[id].err = FatalError
             /\ item'[id].calls = item[id].calls
             /\ item[id].calls = 1
             /\ circuit_breaker'.failures = circuit_breaker.failures + 1
             /\ circuit_breaker'.last_failure_time = now]_vars

\* a fatal error has just been propagated, after one invocation
C11_Witness ==
    \E id \in ItemIds :
        /\ item[id].kind = "fatal"
        /\ item[id].pc = "done"
        /\ item[id].err = FatalError
        /\ item[id].calls = 1
        /\ item[id].rejects = 0
        /\ jobs[id[1]].failed >= 1
        /\ circuit_breaker.failures = 1
        /\ circuit_breaker.last_failure_time = now

(***************************************************************************)
(* C12 (as claimed): the refusal of an attempt by the circuit breaker is   *)
(* not a retryable error: the step in which an attempt is refused ends the *)
(* _execute_with_retry call with that error, with no backoff sleep.        *)
(***************************************************************************)
C12_RejectionNotRetried ==
    [][\A id \in ItemIds :
          item'[id].rejects > item[id].rejects =>
             /\ item'[id].pc = "done"
             /\ item'[id].err = CircuitOpenError]_vars

(***************************************************************************)
(* C13: after any sequence of acquire(n) calls made at any times the       *)
(* balance of the bucket is between 0 and its capacity.                    *)
(***************************************************************************)
C13_TokenBounds ==
    /\ rate_limiter.tokens >= 0
    /\ rate_limiter.tokens <= Capacity * TokenUnit

\* a call has just emptied a bucket that had been refilled up to its capacity
\* after an earlier call
C13_Witness ==
    /\ tb_hist.op = "acquire"
    /\ tb_hist.wait = 0
    /\ tb_hist.n = Capacity
    /\ tb_hist.pre.tokens < Capacity * TokenUnit
    /\ tb_hist.pre.last_update > 1
    /\ rate_limiter.tokens = 0

(***************************************************************************)
(* C14: an acquire(n) made when t ticks have passed since the call before  *)
(* it (or longer), with n <= min(capacity, rate * t), returns wait 0 and   *)
(* leaves the refilled balance less n.  last_update is the time of the     *)
(* last call, so the ticks passed with no call are the call's time less    *)
(* the last_update it found.                                               *)
(***************************************************************************)
C14_GrantAfterIdle ==
    (/\ tb_hist.op = "acquire"
     /\ tb_hist.n * TokenUnit <=
           Min(Capacity * TokenUnit,
               Rate * (rate_limiter.last_update - tb_hist.pre.last_update)))
       => /\ tb_hist.wait = 0
          /\ rate_limiter.tokens =
                Min(Capacity * TokenUnit,
                    tb_hist.pre.tokens
                      + Rate * (rate_limiter.last_update
                                  - tb_hist.pre.last_update))
                  - tb_hist.n * TokenUnit

\* a bucket emptied by earlier calls has granted a call of Capacity tokens
\* after being left alone for just long enough
C14_Witness ==
    /\ tb_hist.op = "acquire"
    /\ tb_hist.pre.tokens = 0
    /\ tb_hist.n = Capacity
    /\ Rate * (rate_limiter.last_update - tb_hist.pre.last_update)
          = Capacity * TokenUnit
    /\ tb_hist.wait = 0
    /\ rate_limiter.tokens = 0

(***************************************************************************)
(* C15 (as claimed): no item goes on to the semaphore without a token      *)
(* deducted from the bucket for it: the step in which an item leaves the   *)
(* rate limiter (from its start or from the sleep that followed a positive *)
(* wait) is a granted acquire(), which refills the bucket and takes one    *)
(* token.                                                                  *)
(***************************************************************************)
C15_AdmissionNeedsToken ==
    [][\A id \in ItemIds :
          (item[id].pc \in {"start", "rl_sleep"}
           /\ item'[id].pc \notin {"start", "rl_sleep"}) =>
             /\ rate_limiter'.last_update = now
             /\ rate_limiter'.tokens =
                   Min(Capacity * TokenUnit,
                       rate_limiter.tokens
                         + Rate * (now - rate_limiter.last_update))
                     - TokenUnit]_vars

(***************************************************************************)
(* C16 (as claimed): cancel_batch_job on a job whose status is processing  *)
(* makes it failed, and the status of a cancelled job that is failed stays *)
(* failed in every later step, also when the items in flight record their  *)
(* outcomes.                                                               *)
(***************************************************************************)
C16_CancelledStaysFailed ==
    [][\A j \in JobIds :
          /\ (jobs[j].status = "processing" /\ ~jobs[j].cancelled
              /\ jobs'[j].cancelled) => jobs'[j].status = "failed"
          /\ (jobs[j].cancelled /\ jobs[j].status = "failed")
                => jobs'[j].status = "failed"]_vars

(***************************************************************************)
(* C17: after cancel_batch_job every file of the job that is not recorded  *)
(* yet is still processed and recorded: processed reaches total, with      *)
(* every file of the job done and counted in successful or in failed.      *)
(***************************************************************************)
C17_CancelDoesNotStop ==
    \A j \in JobIds :
        (jobs[j].cancelled /\ jobs[j].processed < jobs[j].total)
          ~> (/\ jobs[j].processed = jobs[j].total
              /\ \A k \in 1..orch[j].n : item[<<j, k>>].pc = "done"
              /\ jobs[j].successful =
                    Cardinality({k \in 1..orch[j].n :
                                    item[<<j, k>>].kind = "ok"}))

\* a job cancelled before any of its files was recorded has recorded them all
C17_Witness ==
    \E j \in JobIds :
        /\ jobs[j].cancelled
        /\ jobs[j].completions = 2
        /\ jobs[j].total = MaxTotalItems
        /\ jobs[j].processed = jobs[j].total
        /\ jobs[j].successful >= 2
        /\ jobs[j].completed_at > jobs[j].created_at

(***************************************************************************)
(* C18: the submission request, upload_bulk_async, ends with the job in    *)
(* the table of the status query, the background task scheduled and none   *)
(* of the queued files started: only the files refused by validation are   *)
(* recorded, and the job is still processing when a file is queued.        *)
(***************************************************************************)
C18_UploadReturnsEarly ==
    [][\A j \in JobIds :
          (orch[j].pc = "none" /\ orch'[j].pc # "none") =>
             /\ orch'[j].pc = "scheduled"
             /\ j \in batch_jobs'
             /\ \A k \in 1..orch'[j].n : item'[<<j, k>>].pc = "queued"
             /\ jobs'[j].processed = jobs'[j].total - orch'[j].n
             /\ orch'[j].n > 0 => jobs'[j].status = "processing"]_vars

\* an upload has returned with files queued and a validation error recorded
C18_Witness ==
    \E j \in JobIds :
        /\ orch[j].pc = "scheduled"
        /\ j \in batch_jobs
        /\ orch[j].n >= 2
        /\ jobs[j].processed = MaxInvalid
        /\ jobs[j].status = "processing"
        /\ \A k \in 1..orch[j].n : item[<<j, k>>].pc = "queued"

(***************************************************************************)
(* C19: a status query changes no field of a job and no entry of the job   *)
(* table, and a status query that finds the job with the fields the query  *)
(* before it found, whatever time has passed, returns the same body.       *)
(***************************************************************************)
C19_StatusIdempotent ==
    /\ [](status_resp.repeat => status_resp.body = status_resp.prev)
    /\ [][status_resp' # status_resp =>
             (jobs' = jobs /\ batch_jobs' = batch_jobs)]_vars

\* a finished job with an error has been queried twice, the second time at a
\* later tick
C19_Witness ==
    /\ status_resp.code = 200
    /\ status_resp.repeat
    /\ status_resp.body.processed = status_resp.body.total
    /\ status_resp.body.total >= 2
    /\ Len(status_resp.body.errors) >= 1
    /\ status_resp.body.completed_at < now

(***************************************************************************)
(* C20: the body of a status query holds at most ErrorsShown error         *)
(* records; they are the last error records of the job, in the order in    *)
(* which they were recorded; and the message of each is at most ErrorLimit *)
(* characters long.                                                        *)
(***************************************************************************)
C20_RecentErrors ==
    status_resp.code = 200 =>
        LET shown == status_resp.body.errors
            all == status_resp.seen.errors
        IN  /\ Len(shown) <= ErrorsShown
            /\ Len(shown) = Min(ErrorsShown, Len(all))
            /\ \A i \in 1..Len(shown) :
                  /\ shown[i] = all[Len(all) - Len(shown) + i]
                  /\ shown[i].error.len <= ErrorLimit
            /\ \A i \in 1..(Len(shown) - 1) :
                  shown[i].filename < shown[i + 1].filename

\* a job with more error records than are shown, the last one cut to the
\* limit
C20_Witness ==
    /\ status_resp.code = 200
    /\ Len(status_resp.seen.errors) > ErrorsShown
    /\ Len(status_resp.body.errors) = ErrorsShown
    /\ status_resp.body.errors[ErrorsShown].error.len = ErrorLimit
    /\ status_resp.body.errors[1].error.len < ErrorLimit
    /\ status_resp.body.errors[ErrorsShown].filename = MaxJobTotal

(***************************************************************************)
(* C21: the status query finds a job exactly when the job was created and  *)
(* has not been swept; a created job enters the table, only a sweep of a   *)
(* job with completed_at set takes it out, cancel_batch_job leaves it in,  *)
(* and a job that was taken out never comes back.                          *)
(***************************************************************************)
C21_GetJob ==
    /\ [](batch_jobs \subseteq Created)
    /\ [][\A j \in JobIds :
             /\ (jobs[j].status = "absent" /\ jobs'[j].status # "absent")
                   => j \in batch_jobs'
             /\ (j \in batch_jobs /\ j \notin batch_jobs')
                   => (jobs[j].completed_at # None /\ jobs' = jobs)
             /\ (jobs'[j].cancelled /\ ~jobs[j].cancelled)
                   => j \in batch_jobs'
             /\ (j \in Created /\ j \notin batch_jobs) => j \notin batch_jobs'
             /\ (status_resp' # status_resp /\ status_resp'.job_id = j) =>
                   /\ status_resp'.code = 200 <=> j \in batch_jobs
                   /\ status_resp'.code # 200 => status_resp'.code = 404
                   /\ status_resp'.code = 200 =>
                         (status_resp'.body.id = j
                          /\ status_resp'.seen = jobs[j])]_vars

\* a cancelled job that was swept is not found, and neither was an id never
\* used
C21_Witness ==
    \E j \in Created :
        /\ jobs[j].cancelled
        /\ j \notin batch_jobs
        /\ status_resp.job_id = j
        /\ status_resp.code = 404

(***************************************************************************)
(* C22: a call of cleanup_old_jobs that removes something removes, for its *)
(* age a, exactly the jobs of the table with completed_at set and more     *)
(* than a old; the other jobs stay, and no field of any job changes.       *)
(***************************************************************************)
C22_SweepExact ==
    [][(batch_jobs' # batch_jobs /\ batch_jobs' \subseteq batch_jobs) =>
          /\ jobs' = jobs
          /\ \E a \in 0..MaxAge :
                \A j \in batch_jobs :
                    j \notin batch_jobs' <=>
                        (jobs[j].completed_at # None
                         /\ now - jobs[j].completed_at > a)]_vars

\* of two completed jobs the older one has been swept and the other stays
C22_Witness ==
    \E j, k \in Created :
        /\ j \notin batch_jobs
        /\ k \in batch_jobs
        /\ jobs[k].completed_at # None
        /\ jobs[k].completed_at > jobs[j].completed_at
        /\ jobs[k].completed_at < now

(***************************************************************************)
(* C23: when process_file_atomic has returned for a file, either the       *)
(* status is not failed, exactly one record was created and the stored     *)
(* file is kept, or the status is failed, no record exists and the stored  *)
(* file is deleted.                                                        *)
(***************************************************************************)
C23_Atomic ==
    \A id \in ItemIds :
        (IsFile(id) /\ item[id].pc = "done") =>
            \/ item[id].out = "ok" /\ item[id].records = 1 /\ item[id].stored
            \/ item[id].out = "err" /\ item[id].records = 0
                                    /\ ~item[id].stored

(***************************************************************************)
(* C24: in the upload pipeline a provider call that fails with a transient *)
(* error is counted by the circuit breaker as a failure and, while retries *)
(* are left, is followed by a backoff and another attempt.                 *)
(***************************************************************************)
C24_TransientRetried ==
    [][\A id \in ItemIds :
          (/\ item[id].pc = "invoke"
           /\ ProviderRaises(item[id].kind)
           /\ item'[id].pc # "invoke") =>
              /\ circuit_breaker' = record_failure(circuit_breaker, now)
              /\ item[id].attempt < MaxRetries => item'[id].pc = "backoff"]_vars

(***************************************************************************)
(* C25 as stated: within one _execute_with_retry call the delays slept are *)
(* non-decreasing and each is at most max_delay, whatever base_delay > 0,  *)
(* max_delay and the jitter of each attempt are.                           *)
(***************************************************************************)
C25_BackoffMonotone ==
    \A i \in 1..Len(backoff.delays) :
        /\ backoff.delays[i] <= backoff.max_delay
        /\ \A k \in 1..(i - 1) : backoff.delays[k] <= backoff.delays[i]

(***************************************************************************)
(* C25 amended: every delay is at most max_delay, and the delays are       *)
(* non-decreasing when base_delay is one second or more.                   *)
(***************************************************************************)
C25_BackoffMonotoneAmended ==
    \A i \in 1..Len(backoff.delays) :
        /\ backoff.delays[i] <= backoff.max_delay
        /\ backoff.base_delay >= BackoffTicksPerSec =>
              \A k \in 1..(i - 1) : backoff.delays[k] <= backoff.delays[i]

\* a base_delay of a second or more, a first delay with the largest jitter,
\* a larger second delay with none, and a last delay that is capped
C25_Witness ==
    /\ backoff.base_delay >= BackoffTicksPerSec
    /\ Len(backoff.delays) = MaxBackoffRetries
    /\ backoff.delays[1] = backoff.base_delay + BackoffTicksPerSec - 1
    /\ backoff.delays[2] = 2 * backoff.base_delay
    /\ backoff.delays[1] < backoff.delays[2]
    /\ backoff.delays[MaxBackoffRetries] = backoff.max_delay
    /\ backoff.delays[2] < backoff.max_delay

(***************************************************************************)
(* C26: create_batch_job makes a job with status processing and all        *)
(* counters zero; an update_batch_progress call that does not bring        *)
(* processed to total leaves the status as it was; the call that makes     *)
(* processed equal total sets the status to completed when failed = 0, to  *)
(* failed when successful = 0, and to partial otherwise.                   *)
(***************************************************************************)
C26_FinalStatus ==
    [][\A j \in JobIds :
          /\ (jobs[j].status = "absent" /\ jobs'[j].status # "absent") =>
                /\ jobs'[j].status = "processing"
                /\ jobs'[j].processed = 0
                /\ jobs'[j].successful = 0
                /\ jobs'[j].failed = 0
          /\ (jobs'[j].processed = jobs[j].processed + 1
              /\ jobs'[j].processed < jobs'[j].total) =>
                jobs'[j].status = jobs[j].status
          /\ (jobs'[j].processed = jobs[j].processed + 1
              /\ jobs'[j].processed = jobs'[j].total) =>
                jobs'[j].status =
                    IF jobs'[j].failed = 0 THEN "completed"
                    ELSE IF jobs'[j].successful = 0 THEN "failed"
                    ELSE "partial"]_vars

\* a job of several items, never cancelled, that ended partial
C26_Witness ==
    \E j \in JobIds :
        /\ jobs[j].total > 1
        /\ jobs[j].processed = jobs[j].total
        /\ jobs[j].successful > 0
        /\ jobs[j].failed > 0
        /\ ~jobs[j].cancelled
        /\ jobs[j].status = "partial"

(***************************************************************************)
(* C27: with the balance refilled for the time since the last call, an     *)
(* acquire(n) is granted exactly when that balance is n or more; granted,  *)
(* it returns 0 and leaves the refilled balance less n; refused, it        *)
(* returns the positive wait (n - balance) / rate and leaves the refilled  *)
(* balance, which is not below the balance it found.                       *)
(***************************************************************************)
C27_AcquireFrame ==
    tb_hist.op = "acquire" =>
        LET refilled == Min(Capacity * TokenUnit,
                            tb_hist.pre.tokens
                              + Rate * (rate_limiter.last_update
                                          - tb_hist.pre.last_update))
            need == tb_hist.n * TokenUnit
        IN  /\ tb_hist.wait = 0 <=> refilled >= need
            /\ tb_hist.wait = 0 => rate_limiter.tokens = refilled - need
            /\ tb_hist.wait # 0 =>
                  /\ tb_hist.wait > 0
                  /\ tb_hist.wait = CeilDiv(need - refilled, Rate)
                  /\ rate_limiter.tokens = refilled
                  /\ rate_limiter.tokens >= tb_hist.pre.tokens

\* a refused call that found a balance above zero and left it, refilled
C27_Witness ==
    /\ tb_hist.op = "acquire"
    /\ tb_hist.wait > 0
    /\ tb_hist.pre.tokens < rate_limiter.tokens
    /\ rate_limiter.tokens < tb_hist.n * TokenUnit

(***************************************************************************)
(* C28: a task is invoked only in a step that begins with a can_execute()  *)
(* answering true, which leaves the breaker closed or half-open; in a step *)
(* where can_execute() answers false the attempt is refused and the task   *)
(* is not invoked.                                                         *)
(***************************************************************************)
C28_InvokeAfterCheck ==
    [][\A id \in ItemIds :
          /\ (item'[id].pc = "invoke" /\ item[id].pc # "invoke")
                => item'[id].calls = item[id].calls + 1
          /\ item'[id].calls # item[id].calls =>
                /\ item'[id].calls = item[id].calls + 1
                /\ item'[id].pc = "invoke"
                /\ can_execute(circuit_breaker, now).ret
                /\ circuit_breaker' = can_execute(circuit_breaker, now).cb
                /\ circuit_breaker'.state # "open"
                /\ item'[id].rejects = item[id].rejects
          /\ item'[id].rejects # item[id].rejects =>
                /\ ~can_execute(circuit_breaker, now).ret
                /\ circuit_breaker.state = "open"
                /\ item'[id].calls = item[id].calls
                /\ item'[id].pc # "invoke"]_vars

\* an item whose first attempt invoked the task and whose second was refused
C28_Witness ==
    \E id \in ItemIds :
        /\ item[id].calls = 1
        /\ item[id].rejects = 1
        /\ item[id].attempt = 1

(***************************************************************************)
(* C29: every invocation of a task, the invocations of the retry attempts  *)
(* included, comes after a circuit breaker check that answered true and    *)
(* after a rate limiter acquisition made for that invocation: the item     *)
(* comes to it from its acquire(), from the sleep acquire() asked for or   *)
(* from the wait for a slot, never from a backoff sleep.                   *)
(***************************************************************************)
C29_BothGates ==
    [][\A id \in ItemIds :
          item'[id].calls = item[id].calls + 1 =>
              /\ can_execute(circuit_breaker, now).ret
              /\ item[id].pc \in {"start", "rl_sleep", "sem"}]_vars

(***************************************************************************)
(* C30: an item goes forward through acquire(), the sleep that acquire()   *)
(* asked for (only when the wait is positive), the wait for a slot, the    *)
(* retry loop, and the recording of its outcome.  The free slots are the   *)
(* concurrency less the items inside the retry loop, so an item asleep for *)
(* the rate limiter holds none; the outcome is recorded in the step that   *)
(* ends the item, with its slot given back.                                *)
(***************************************************************************)
StepRank(pc) ==
    CASE pc = "idle" -> 0
      [] pc = "queued" -> 1
      [] pc = "start" -> 2
      [] pc = "rl_sleep" -> 3
      [] pc = "sem" -> 4
      [] pc \in {"invoke", "backoff"} -> 5
      [] OTHER -> 6

C30_ItemOrder ==
    /\ [](semaphore
            = concurrency - Cardinality({id \in ItemIds : InSemaphore(id)}))
    /\ [][\A id \in ItemIds :
             /\ StepRank(item'[id].pc) >= StepRank(item[id].pc)
             /\ (item[id].pc = "start" /\ item'[id].pc # "start") =>
                   /\ rate_limiter' = acquire(rate_limiter, 1, now).tb
                   /\ item'[id].pc = "rl_sleep"
                         <=> acquire(rate_limiter, 1, now).wait > 0
             /\ (item'[id].pc = "rl_sleep" /\ item[id].pc # "rl_sleep") =>
                   item[id].pc = "start"
             /\ (item'[id].pc = "done" /\ item[id].pc # "done") =>
                   /\ jobs'[id[1]].processed = jobs[id[1]].processed + 1
                   /\ semaphore' = concurrency
                        - Cardinality({k \in ItemIds :
                                         item'[k].pc \in {"invoke",
                                                          "backoff"}})
                   /\ InSemaphore(id) => semaphore' = semaphore + 1
             /\ (jobs'[id[1]].processed # jobs[id[1]].processed
                 /\ jobs[id[1]].status # "absent") =>
                   \E k \in ItemIds :
                      /\ k[1] = id[1]
                      /\ item'[k].pc = "done"
                      /\ item[k].pc # "done"]_vars

\* one item asleep for the rate limiter while one is recorded, one is in its
\* retry loop, and that one alone holds a slot
C30_Witness ==
    \E a, b, c \in ItemIds :
        /\ item[a].pc = "rl_sleep"
        /\ item[b].pc = "done"
        /\ item[c].pc = "invoke"
        /\ semaphore = concurrency - 1

(***************************************************************************)
(* C31: the errors list kept in a job never holds more records than the    *)
(* status shows (10 in the code, ErrorsShown here): the oldest record is   *)
(* dropped when one more failure is recorded.                              *)
(***************************************************************************)
C31_ErrorsBounded ==
    \A j \in JobIds : Len(jobs[j].errors) <= ErrorsShown

(***************************************************************************)
(* C32: every recorded success has appended its result and every recorded  *)
(* failure its error record, whatever the payload and the message: the     *)
(* results are as many as successful and the error records as many as      *)
(* failed.                                                                 *)
(***************************************************************************)
C32_EveryOutcomeKept ==
    \A j \in JobIds :
        /\ Len(jobs[j].results) = jobs[j].successful
        /\ Len(jobs[j].errors) = jobs[j].failed

(***************************************************************************)
(* C33 as stated: failures is 0 right after every record_success() applied *)
(* while the breaker is closed, and right after every transition out of    *)
(* closed.                                                                 *)
(***************************************************************************)
C33_FailuresReset ==
    /\ (cb_hist.op = "succ" /\ cb_hist.pre = "closed")
          => circuit_breaker.failures = 0
    /\ (cb_hist.op \in {"succ", "fail", "can"} /\ cb_hist.pre = "closed"
        /\ circuit_breaker.state # "closed")
          => circuit_breaker.failures = 0

(***************************************************************************)
(* C33 amended: failures is 0 right after every record_success() applied   *)
(* while the breaker is closed and right after every transition into       *)
(* closed; the transition out of closed is the one to open made by         *)
(* record_failure(), and it leaves failures at FailureThreshold.           *)
(***************************************************************************)
C33_FailuresResetAmended ==
    /\ (cb_hist.op = "succ" /\ cb_hist.pre = "closed")
          => circuit_breaker.failures = 0
    /\ (cb_hist.op \in {"succ", "fail", "can"} /\ cb_hist.pre # "closed"
        /\ circuit_breaker.state = "closed")
          => circuit_breaker.failures = 0
    /\ (cb_hist.op \in {"succ", "fail", "can"} /\ cb_hist.pre = "closed"
        /\ circuit_breaker.state # "closed")
          => /\ cb_hist.op = "fail"
             /\ circuit_breaker.state = "open"
             /\ circuit_breaker.failures = FailureThreshold

\* a success recorded in a closed breaker that had a failure counted at this
\* very time has put the count back to zero
C33_Witness ==
    /\ cb_hist.op = "succ"
    /\ cb_hist.pre = "closed"
    /\ circuit_breaker.state = "closed"
    /\ circuit_breaker.last_failure_time = now
    /\ now > 1
    /\ circuit_breaker.failures = 0

(***************************************************************************)
(* C34: cb_hist.admitted counts the can_execute() calls answered true      *)
(* since the breaker last entered half-open, the call that entered it      *)
(* included (the count stops at HalfOpenMax + 1).  From the entry into     *)
(* half-open until the breaker is closed or open again, no more than       *)
(* HalfOpenMax calls are admitted.                                         *)
(***************************************************************************)
C34_ProbeBounded ==
    cb_hist.admitted <= HalfOpenMax

Finished(j) == {id \in ItemIds : id[1] = j /\ item[id].pc = "done"}

C36_FoldedOnce ==
    \A j \in JobIds :
        orch[j].pc # "none" =>
            /\ jobs[j].processed = Cardinality(Finished(j))
            /\ jobs[j].successful =
                  Cardinality({id \in Finished(j) : item[id].out = "ok"})
            /\ jobs[j].failed =
                  Cardinality({id \in Finished(j) : item[id].out = "err"})
            /\ orch[j].pc = "returned" =>
                  /\ jobs[j].processed = orch[j].n
                  /\ jobs[j].processed = jobs[j].total

\* a batch of MaxItems items has returned, with successes and failures
C36_Witness ==
    \E j \in JobIds :
        /\ orch[j].pc = "returned"
        /\ orch[j].n = MaxItems
        /\ jobs[j].processed = MaxItems
        /\ jobs[j].successful > 0
        /\ jobs[j].failed > 0

(***************************************************************************)
(* C37: process_batch starts its items chunk by chunk in input order.  The *)
(* items started in one step are the items i + 1 .. min(i + ChunkSize, n)  *)
(* for a multiple i of ChunkSize: ChunkSize of them, or fewer (one at      *)
(* least) when they are the last; the items before them were started       *)
(* earlier and those after them wait; no item is started twice, and none   *)
(* is left out when process_batch returns.                                 *)
(***************************************************************************)
C37_Chunks ==
    /\ [](\A j \in JobIds : orch[j].pc = "returned" =>
             \A k \in 1..orch[j].n : item[<<j, k>>].pc = "done")
    /\ [][\A j \in JobIds :
            LET S == {k \in 1..MaxItems :
                        /\ item'[<<j, k>>].pc = "start"
                        /\ item[<<j, k>>].pc # "start"}
                i == orch'[j].i
                n == orch'[j].n
            IN  S # {} =>
                  /\ \A k \in S : item[<<j, k>>].pc \in {"idle", "queued"}
                  /\ i % ChunkSize = 0
                  /\ S = (i + 1)..Min(i + ChunkSize, n)
                  /\ Cardinality(S) = ChunkSize
                       \/ (i + Cardinality(S) = n /\ Cardinality(S) >= 1)
                  /\ \A k \in 1..i : item'[<<j, k>>].pc = "done"
                  /\ \A k \in (i + ChunkSize + 1)..n :
                        item'[<<j, k>>].pc = "queued"]_vars

\* the last chunk of a batch, smaller than ChunkSize, has been started after
\* the first one was finished
C37_Witness ==
    \E j \in JobIds :
        /\ orch[j].pc = "gather"
        /\ orch[j].i = ChunkSize
        /\ orch[j].n = ChunkSize + 1
        /\ item[<<j, ChunkSize + 1>>].pc = "start"
        /\ \A k \in 1..ChunkSize : item[<<j, k>>].pc = "done"

(***************************************************************************)
(* C38: an attempt refused because the breaker is open leaves the breaker  *)
(* as it was: failures and last_failure_time do not change, so the time at *)
(* which the breaker may go half-open does not move.                       *)
(***************************************************************************)
C38_RejectionLeavesBreaker ==
    [][(\E id \in ItemIds : item'[id].rejects = item[id].rejects + 1)
          => circuit_breaker' = circuit_breaker]_vars

(***************************************************************************)
(* C39: the slots of the gate are conserved.  An item that leaves the      *)
(* retry loop, by a result, a fatal error, the exhaustion of its retries   *)
(* or a refusal of the breaker, gives its slot back; it keeps the slot     *)
(* from one attempt to the next, across the backoff sleep; and when no     *)
(* item is inside the gate all the slots are free.                         *)
(***************************************************************************)
C39_SlotsConserved ==
    /\ []((\A id \in ItemIds : ~InSemaphore(id)) => semaphore = concurrency)
    /\ [](semaphore >= 0)
    /\ [][\A id \in ItemIds :
             /\ (InSemaphore(id) /\ item'[id].pc = "done") =>
                   /\ semaphore' = semaphore + 1
                   /\ semaphore' <= concurrency
             /\ (InSemaphore(id) /\ item'[id].pc \in {"invoke", "backoff"}
                 /\ item'[id] # item[id]) =>
                   semaphore' = semaphore]_vars

\* the gate is empty and full of free slots after one item left it refused
\* by the breaker and another with its retries exhausted
C39_Witness ==
    /\ \A id \in ItemIds : ~InSemaphore(id)
    /\ semaphore = concurrency
    /\ \E a, b \in ItemIds :
          /\ item[a].pc = "done" /\ item[a].err = CircuitOpenError
          /\ item[b].pc = "done" /\ item[b].err = TransientError
          /\ item[b].calls = MaxRetries + 1

(***************************************************************************)
(* C40: whenever the breaker is half-open its half_open_successes is below *)
(* HalfOpenMax, and whenever it is closed its failures is below            *)
(* FailureThreshold.                                                       *)
(***************************************************************************)
C40_CountersBelowLimits ==
    /\ circuit_breaker.state = "half-open"
          => circuit_breaker.half_open_successes < HalfOpenMax
    /\ circuit_breaker.state = "closed"
          => circuit_breaker.failures < FailureThreshold

\* a breaker in its second probe, one success short of closing, after the
\* first probe was closed by HalfOpenMax successes
C40_Witness ==
    /\ circuit_breaker.state = "half-open"
    /\ cb_hist.op = "succ"
    /\ circuit_breaker.half_open_successes = HalfOpenMax - 1
    /\ circuit_breaker.last_failure_time > 1

====
